---- MODULE Spec2Model ----
(***************************************************************************)
(* Model of app2.py: the NSE option-chain pricing service.                 *)
(*                                                                         *)
(* Python floats are modelled as fixed-point integers with six decimal    *)
(* digits (the value x is held as floor(x * 10^6)).  Products and          *)
(* quotients are computed digit-wise so that every intermediate value      *)
(* stays inside the 32-bit integers of the model checker.                  *)
(***************************************************************************)
EXTENDS Integers, Sequences, FiniteSets, TLC

VARIABLES symbol, today, chain_data, pc, idx, side, all_results, response,
          call, ret

vars == <<symbol, today, chain_data, pc, idx, side, all_results, response,
          call, ret>>

(***************************************************************************)
(* Bounds of the model                                                     *)
(***************************************************************************)
MaxChain == 2          \* longest option chain handed to the orchestrator
MaxDay   == 21         \* last day of April 2025 used in the calendar inputs
ExpTerms == 10         \* number of Taylor terms used for math.exp

(***************************************************************************)
(* Fixed-point arithmetic standing for Python float arithmetic             *)
(***************************************************************************)
ONE  == 10^6
KILO == 10^3

Abs(x) == IF x < 0 THEN -x ELSE x

Max0(x) == IF x > 0 THEN x ELSE 0

\* a * b on floats: floor(a*b / 10^6), computed on the 3-digit halves
MulFP(a, b) ==
    LET a1 == a \div KILO
        a0 == a % KILO
        b1 == b \div KILO
        b0 == b % KILO
    IN  a1 * b1 + ((a1 * b0 + a0 * b1) + ((a0 * b0) \div KILO)) \div KILO

\* the six fractional digits of r / b, for 0 <= r < b
RECURSIVE DivDigits(_, _, _)
DivDigits(r, b, k) ==
    IF k = 0 THEN 0
    ELSE ((r * 10) \div b) * (10^(k - 1)) + DivDigits((r * 10) % b, b, k - 1)

DivPos(a, b) == (a \div b) * ONE + DivDigits(a % b, b, 6)

\* a / b on floats (b # 0): floor(a * 10^6 / b)
DivFP(a, b) == IF b < 0 THEN DivPos(-a, -b) ELSE DivPos(a, b)

\* r*r <= x * 10^6, for r, x >= 0
SqLe(r, x) ==
    LET r1 == r \div KILO
        r0 == r % KILO
        hi == MulFP(r, r)
        lo == ((((2 * r1 * r0) % KILO) * KILO) + r0 * r0) % ONE
    IN  hi < x \/ (hi = x /\ lo = 0)

RECURSIVE SqrtBisect(_, _, _)
SqrtBisect(lo, hi, x) ==
    IF hi - lo <= 1 THEN lo
    ELSE LET mid == (lo + hi) \div 2
         IN  IF SqLe(mid, x) THEN SqrtBisect(mid, hi, x)
                             ELSE SqrtBisect(lo, mid, x)

\* math.sqrt(x) for x >= 0: floor(sqrt(x * 10^6))
SqrtFP(x) == SqrtBisect(0, x + ONE + 1, x)

RECURSIVE ExpSeries(_, _, _)
ExpSeries(x, term, k) ==
    IF k > ExpTerms THEN 0
    ELSE LET t == MulFP(term, x) \div k
         IN  t + ExpSeries(x, t, k + 1)

\* math.exp(x): 1 + x + x^2/2! + ... (ExpTerms terms)
ExpFP(x) == ONE + ExpSeries(x, ONE, 1)

(***************************************************************************)
(* Configuration constants                                                 *)
(***************************************************************************)
MANUAL_RISK_FREE_RATE == 65090         \* 0.06509
MANUAL_DIVIDEND_YIELD == 0             \* 0.0
TOTAL_TRADING_DAYS_2025 == 247

(***************************************************************************)
(* datetime: dates are proleptic Gregorian ordinals, date strings are      *)
(* records [t, d, b, y] standing for the text "dd-Mon-yyyy"                *)
(***************************************************************************)
MonthAbbr == <<"Jan", "Feb", "Mar", "Apr", "May", "Jun",
               "Jul", "Aug", "Sep", "Oct", "Nov", "Dec">>

is_leap(y) == (y % 4 = 0) /\ ((y % 100 # 0) \/ (y % 400 = 0))

days_in_month(y, m) ==
    IF m = 2 THEN (IF is_leap(y) THEN 29 ELSE 28)
    ELSE IF m \in {4, 6, 9, 11} THEN 30 ELSE 31

days_before_year(y) ==
    LET y1 == y - 1
    IN  y1 * 365 + (y1 \div 4) - (y1 \div 100) + (y1 \div 400)

RECURSIVE days_before_month(_, _)
days_before_month(y, m) ==
    IF m = 1 THEN 0
    ELSE days_before_month(y, m - 1) + days_in_month(y, m - 1)

\* date(y, m, d).toordinal()
ymd2ord(y, m, d) == days_before_year(y) + days_before_month(y, m) + d

\* date.weekday(): Monday = 0 ... Sunday = 6
weekday(ord) == (ord + 6) % 7

DateStr(d, b, y) == [t |-> "str", d |-> d, b |-> b, y |-> y]

\* the value None where a date string is expected
NoneStr == [t |-> "none", d |-> 0, b |-> "", y |-> 0]

\* the empty string
EmptyStr == DateStr(0, "", 0)

MonthIndex(b) == CHOOSE m \in 1..12 : MonthAbbr[m] = b

\* datetime.strptime(s, "%d-%b-%Y").date():
\* exc is "TypeError" for a non-string, "ValueError" for text that is no date
strptime(s) ==
    IF s.t # "str" THEN [exc |-> "TypeError", date |-> 0]
    ELSE IF \/ ~(\E m \in 1..12 : MonthAbbr[m] = s.b)
            \/ s.y < 1 \/ s.y > 9999
            \/ s.d < 1
         THEN [exc |-> "ValueError", date |-> 0]
    ELSE IF s.d > days_in_month(s.y, MonthIndex(s.b))
         THEN [exc |-> "ValueError", date |-> 0]
    ELSE [exc |-> "", date |-> ymd2ord(s.y, MonthIndex(s.b), s.d)]

RECURSIVE FindYear(_, _)
FindYear(ord, y) ==
    IF ord <= days_before_year(y + 1) THEN y ELSE FindYear(ord, y + 1)

RECURSIVE FindMonth(_, _, _)
FindMonth(rest, y, m) ==
    IF rest <= days_in_month(y, m) THEN m
    ELSE FindMonth(rest - days_in_month(y, m), y, m + 1)

year_of(ord) == FindYear(ord, (ord \div 366) + 1)

\* date.strftime("%d-%b-%Y")
strftime(ord) ==
    LET y    == year_of(ord)
        rest == ord - days_before_year(y)
        m    == FindMonth(rest, y, 1)
    IN  DateStr(rest - days_before_month(y, m), MonthAbbr[m], y)

HOLIDAYS_2025 ==
    << DateStr(26, "Feb", 2025), DateStr(14, "Mar", 2025),
       DateStr(31, "Mar", 2025), DateStr(10, "Apr", 2025),
       DateStr(14, "Apr", 2025), DateStr(18, "Apr", 2025),
       DateStr(1,  "May", 2025), DateStr(15, "Aug", 2025),
       DateStr(27, "Aug", 2025), DateStr(2,  "Oct", 2025),
       DateStr(21, "Oct", 2025), DateStr(22, "Oct", 2025),
       DateStr(5,  "Nov", 2025), DateStr(25, "Dec", 2025) >>

\* the set built by the loop over HOLIDAYS_2025
holiday_dates ==
    { strptime(HOLIDAYS_2025[i]).date :
        i \in { j \in 1..Len(HOLIDAYS_2025) :
                  strptime(HOLIDAYS_2025[j]).exc = "" } }

\* is_trading_day with Saturday taken for a working day (weekday() < 6)
is_trading_day_sat(curr_date) ==
    weekday(curr_date) < 6 /\ curr_date \notin holiday_dates

\* the test in the body of the while loop
is_trading_day(curr_date) ==
    weekday(curr_date) < 5 /\ curr_date \notin holiday_dates

\* the while loop of count_trading_days_between over curr_date..last
RECURSIVE count_block(_, _)
count_block(curr_date, last) ==
    IF curr_date <= last
    THEN (IF is_trading_day(curr_date) THEN 1 ELSE 0)
         + count_block(curr_date + 1, last)
    ELSE 0

\* the while loop of count_trading_days_between, run four weeks at a time
\* (the day-by-day recursion of a whole year is too deep to evaluate)
RECURSIVE count_loop(_, _)
count_loop(curr_date, end_date) ==
    IF curr_date <= end_date
    THEN LET last == IF curr_date + 27 < end_date THEN curr_date + 27
                                                  ELSE end_date
         IN  count_block(curr_date, last) + count_loop(last + 1, end_date)
    ELSE 0

\* both arguments are strings here (the only caller passes strftime output
\* and a string that strptime already accepted or rejected with ValueError)
count_parsed(ps, pe) ==
    IF ps.exc = "ValueError" \/ pe.exc = "ValueError" THEN 0
    ELSE IF ps.date > pe.date THEN 0
    ELSE count_loop(ps.date, pe.date)

count_trading_days_between(start_str, end_str) ==
    count_parsed(strptime(start_str), strptime(end_str))

FracStr(days, total) == <<days, total>>

\* result of calculate_time_to_expiry: exc # "" when the call raises
TTE(exc, T, frac, days) ==
    [exc |-> exc, T |-> T, frac_str |-> frac, days_left |-> days]

\* the rest of calculate_time_to_expiry once days_left is known
tte_return(days_left, total_trading_days) ==
    IF total_trading_days <= 0
    THEN TTE("", 0, FracStr(days_left, total_trading_days), days_left)
    ELSE TTE("", (days_left * ONE) \div total_trading_days,
             FracStr(days_left, total_trading_days), days_left)

\* tte_parsed without the test of the expiry year
tte_parsed_any_year(pe, expiry_str, today_date, total_trading_days) ==
    IF pe.exc = "TypeError" THEN TTE("TypeError", 0, FracStr(0, 0), 0)
    ELSE IF pe.exc = "ValueError" THEN TTE("", 0, FracStr(0, 0), 0)
    ELSE tte_return(count_trading_days_between(strftime(today_date),
                                               expiry_str),
                    total_trading_days)

\* calculate_time_to_expiry after strptime(expiry_str)
tte_parsed(pe, expiry_str, today_date, total_trading_days) ==
    IF pe.exc = "TypeError" THEN TTE("TypeError", 0, FracStr(0, 0), 0)
    ELSE IF pe.exc = "ValueError" THEN TTE("", 0, FracStr(0, 0), 0)
    ELSE IF year_of(pe.date) # 2025 THEN TTE("", 0, FracStr(0, 0), 0)
    ELSE tte_return(count_trading_days_between(strftime(today_date),
                                               expiry_str),
                    total_trading_days)

calculate_time_to_expiry(expiry_str, today_date, total_trading_days) ==
    tte_parsed(strptime(expiry_str), expiry_str, today_date,
               total_trading_days)

(***************************************************************************)
(* Step schedule                                                           *)
(***************************************************************************)
\* determine_n_steps with the maturity rule tested first
determine_n_steps_T_first(IV, T, is_index, is_atm) ==
    IF T < 50000 THEN <<4, 10, 20, 40, 50>>
    ELSE IF IV > 400000 THEN <<10, 20, 50, 100, 200, 400>>
    ELSE IF IV > 200000 THEN <<10, 20, 50, 100, 200>>
    ELSE IF IV > 100000 THEN <<4, 10, 20, 40, 100>>
    ELSE IF is_index /\ is_atm THEN <<10, 20, 50, 100, 200>>
    ELSE <<4, 10, 20, 40>>

determine_n_steps(IV, T, is_index, is_atm) ==
    IF IV > 400000 THEN <<10, 20, 50, 100, 200, 400>>
    ELSE IF IV > 200000 THEN <<10, 20, 50, 100, 200>>
    ELSE IF IV > 100000 THEN <<4, 10, 20, 40, 100>>
    ELSE IF T < 50000 THEN <<4, 10, 20, 40, 50>>
    ELSE IF is_index /\ is_atm THEN <<10, 20, 50, 100, 200>>
    ELSE <<4, 10, 20, 40>>

(***************************************************************************)
(* JSON values of a contract record: a number, a string holding a number,  *)
(* any other string, or null                                               *)
(***************************************************************************)
Num(v)    == [t |-> "num", v |-> v]
NumStr(v) == [t |-> "numstr", v |-> v]
Str       == [t |-> "str", v |-> 0]
None      == [t |-> "none", v |-> 0]

\* dict.get(key, default)
Get(dict, key, default) == IF key \in DOMAIN dict THEN dict[key] ELSE default

\* float(x): exc is "ValueError" or "TypeError" when the conversion fails
float(x) ==
    IF x.t \in {"num", "numstr"} THEN [exc |-> "", v |-> x.v]
    ELSE IF x.t = "str" THEN [exc |-> "ValueError", v |-> 0]
    ELSE [exc |-> "TypeError", v |-> 0]

(***************************************************************************)
(* Nearest implied volatility                                              *)
(***************************************************************************)
\* key of the sort: abs(x["strikePrice"] - strike_price)
sort_key(x, strike_price) == Abs(x["strikePrice"].v - strike_price.v)

\* the exception raised while the sort keys are computed, "" if none
sort_key_exc(x, strike_price) ==
    IF "strikePrice" \notin DOMAIN x THEN "KeyError"
    ELSE IF x["strikePrice"].t # "num" \/ strike_price.t # "num"
         THEN "TypeError"
    ELSE ""

\* insert_stable putting an equal key in front (an unstable sort)
RECURSIVE insert_unstable(_, _, _, _)
insert_unstable(sorted, i, chain, strike_price) ==
    IF sorted = <<>> THEN <<i>>
    ELSE IF sort_key(chain[Head(sorted)], strike_price)
              < sort_key(chain[i], strike_price)
         THEN <<Head(sorted)>> \o insert_unstable(Tail(sorted), i, chain, strike_price)
         ELSE <<i>> \o sorted

\* insert index i behind every index whose key is not larger (stable)
RECURSIVE insert_stable(_, _, _, _)
insert_stable(sorted, i, chain, strike_price) ==
    IF sorted = <<>> THEN <<i>>
    ELSE IF sort_key(chain[Head(sorted)], strike_price)
              <= sort_key(chain[i], strike_price)
         THEN <<Head(sorted)>> \o insert_stable(Tail(sorted), i, chain, strike_price)
         ELSE <<i>> \o sorted

\* sorted(option_chain, key=...), as the sequence of chain positions
RECURSIVE sorted_by_strike(_, _, _)
sorted_by_strike(chain, strike_price, k) ==
    IF k = 0 THEN <<>>
    ELSE insert_stable(sorted_by_strike(chain, strike_price, k - 1), k,
                       chain, strike_price)

NearestIV(exc, found, iv, strike) ==
    [exc |-> exc, found |-> found, iv |-> iv, strike |-> strike]

\* the for loop over sorted_by_strike
RECURSIVE scan_nearest(_, _, _)
scan_nearest(order, chain, option_type) ==
    IF order = <<>> THEN NearestIV("", FALSE, 0, 0)
    ELSE LET c == chain[Head(order)]
         IN  IF /\ option_type \in DOMAIN c
                /\ "impliedVolatility" \in DOMAIN c[option_type]
                /\ float(c[option_type]["impliedVolatility"]).exc = ""
                /\ float(c[option_type]["impliedVolatility"]).v > 0
             THEN NearestIV("", TRUE,
                            float(c[option_type]["impliedVolatility"]).v \div 100,
                            c["strikePrice"].v)
             ELSE scan_nearest(Tail(order), chain, option_type)

get_nearest_iv(strike_price, option_chain, option_type) ==
    LET bad == { k \in 1..Len(option_chain) :
                   sort_key_exc(option_chain[k], strike_price) # "" }
    IN  IF bad # {}
        THEN NearestIV(sort_key_exc(option_chain[CHOOSE k \in bad :
                                        \A j \in bad : k <= j], strike_price),
                       FALSE, 0, 0)
        ELSE scan_nearest(sorted_by_strike(option_chain, strike_price,
                                           Len(option_chain)),
                          option_chain, option_type)

(***************************************************************************)
(* Trinomial lattice                                                       *)
(***************************************************************************)
StepResult(exc, n, dt, u, d, m, p_u, p_m, p_d, df, pr_u, pr_m, pr_d, pay_u, pay_m, pay_d, root) ==
    [exc |-> exc, n |-> n, dt |-> dt, u |-> u, d |-> d, m |-> m,
     p_u |-> p_u, p_m |-> p_m, p_d |-> p_d, discount_factor |-> df,
     price_up |-> pr_u, price_mid |-> pr_m, price_down |-> pr_d,
     payoff_up |-> pay_u, payoff_mid |-> pay_m, payoff_down |-> pay_d,
     option_value_at_root |-> root]

\* the record returned when dt <= 0
degenerate_step(S, n) ==
    StepResult("", n, 0, ONE, ONE, ONE, 0, 0, 0, ONE, S, S, S, 0, 0, 0, 0)

\* the record standing for a call that raised exc
raised_step(exc, n) ==
    StepResult(exc, n, 0, 0, 0, 0, 0, 0, 0, 0, None, None, None, 0, 0, 0, 0)

\* dt = T / n if n else 0
step_dt(T, n) == IF n # 0 THEN (IF n < 0 THEN (-T) \div (-n) ELSE T \div n) ELSE 0

\* the guard written dt < 0
is_degenerate_strict(dt) == dt < 0

\* dt <= 0: the guard of the degenerate return
is_degenerate(dt) == dt <= 0

prob_up(frac)       == MulFP(ONE \div 2, MulFP(frac, frac))
prob_mid(frac)      == ONE - MulFP(frac, frac)
\* p_d computed without p_m
prob_down_no_mid(p_u, p_m) == ONE - p_u

prob_down(p_u, p_m) == ONE - p_u - p_m

\* max(0.0, price - K) for a call, max(0.0, K - price) for a put
payoff(price, K, option_type) ==
    IF option_type = "CE" THEN Max0(price - K) ELSE Max0(K - price)

\* the return statement of the regular branch
step_return(S, K, r, n, option_type, dt, u, d, m, p_u, p_m, p_d, discount_factor, price_up, price_mid, price_down, payoff_up, payoff_mid, payoff_down) ==
    StepResult("", n, dt, u, d, m, p_u, p_m, p_d, discount_factor,
               Num(price_up), Num(price_mid), Num(price_down),
               payoff_up, payoff_mid, payoff_down,
               MulFP(discount_factor,
                     MulFP(p_u, payoff_up) + MulFP(p_m, payoff_mid)
                     + MulFP(p_d, payoff_down)))

\* terminal payoffs from the three node prices
step_payoffs(S, K, r, n, option_type, dt, u, d, m, p_u, p_m, p_d, discount_factor, price_up, price_mid, price_down) ==
    step_return(S, K, r, n, option_type, dt, u, d, m, p_u, p_m, p_d,
                discount_factor, price_up, price_mid, price_down,
                payoff(price_up, K.v, option_type),
                payoff(price_mid, K.v, option_type),
                payoff(price_down, K.v, option_type))

\* discount factor and node prices
step_prices(S, K, r, n, option_type, dt, u, d, m, p_u, p_m, p_d) ==
    step_payoffs(S, K, r, n, option_type, dt, u, d, m, p_u, p_m, p_d,
                 ExpFP(MulFP(-r, dt)),
                 MulFP(S.v, u), MulFP(S.v, m), MulFP(S.v, d))

\* p_d from p_u and p_m
step_p_d(S, K, r, n, option_type, dt, u, d, m, p_u, p_m) ==
    step_prices(S, K, r, n, option_type, dt, u, d, m, p_u, p_m,
                prob_down(p_u, p_m))

\* p_u and p_m from frac = numerator / denominator
step_frac(S, K, r, n, option_type, dt, u, d, m, frac) ==
    step_p_d(S, K, r, n, option_type, dt, u, d, m,
             prob_up(frac), prob_mid(frac))

\* abs(denominator) < 1e-14 is denominator = 0 at six digits
step_probs(S, K, r, n, option_type, dt, u, d, m, numerator, denominator) ==
    IF Abs(denominator) < 1
    THEN step_prices(S, K, r, n, option_type, dt, u, d, m,
                     ONE \div 3, ONE \div 3, ONE \div 3)
    ELSE step_frac(S, K, r, n, option_type, dt, u, d, m,
                   DivFP(numerator, denominator))

step_exp_rq(S, K, r, n, option_type, dt, u, d, m, exp_rq) ==
    step_probs(S, K, r, n, option_type, dt, u, d, m, exp_rq - d, u - d)

\* d = 1 / u, m = 1, exp_rq = exp((r - q) * dt)
step_u(S, K, r, q, n, option_type, dt, u) ==
    step_exp_rq(S, K, r, n, option_type, dt, u, DivFP(ONE, u), ONE,
                ExpFP(MulFP(r - q, dt)))

\* the body of trinomial_single_step once dt is known
step_with_dt(S, K, r, sigma, q, n, option_type, dt) ==
    IF is_degenerate(dt) THEN degenerate_step(S, n)
    ELSE IF S.t # "num" \/ K.t # "num" THEN raised_step("TypeError", n)
    ELSE step_u(S, K, r, q, n, option_type, dt,
                ExpFP(MulFP(sigma, SqrtFP(2 * dt))))

trinomial_single_step(S, K, r, sigma, T, q, n, option_type) ==
    step_with_dt(S, K, r, sigma, q, n, option_type, step_dt(T, n))

\* the first exception among the steps, "" if none
RECURSIVE first_exc(_)
first_exc(results) ==
    IF results = <<>> THEN ""
    ELSE IF Head(results).exc # "" THEN Head(results).exc
    ELSE first_exc(Tail(results))

\* the list returned by trinomial_tree_price, with the exception it raised
tree_return(results) == [exc |-> first_exc(results), results |-> results]

trinomial_tree_price(S, K, r, sigma, T, q, n_values, option_type) ==
    tree_return([k \in 1..Len(n_values) |->
                   trinomial_single_step(S, K, r,
                                         IF sigma <= 0 THEN ONE \div 100
                                                       ELSE sigma,
                                         T, q, n_values[k], option_type)])

(***************************************************************************)
(* The orchestrator: one (contract, option side) pass of the loop of       *)
(* fetch_and_calculate                                                     *)
(***************************************************************************)
OptTypes == <<"CE", "PE">>

\* symbol.upper()
upper(sym) == IF sym = "nifty" THEN "NIFTY" ELSE sym

\* the fields copied into contract_obj["pricing_steps"]
step_fields(r) ==
    [n |-> r.n, dt |-> r.dt, u |-> r.u, d |-> r.d, m |-> r.m,
     p_u |-> r.p_u, p_m |-> r.p_m, p_d |-> r.p_d,
     discount_factor |-> r.discount_factor,
     price_up |-> r.price_up, price_mid |-> r.price_mid,
     price_down |-> r.price_down,
     payoff_up |-> r.payoff_up, payoff_mid |-> r.payoff_mid,
     payoff_down |-> r.payoff_down,
     option_value_at_root |-> r.option_value_at_root]

\* raw_days_left: calendar days to expiry, 0 when negative or unparsable
raw_days(expiry_str, today_date) ==
    LET p == strptime(expiry_str)
    IN  IF p.exc # "" THEN 0 ELSE Max0(p.date - today_date)

\* iv_raw after float(): 0.0 when the conversion fails
quoted_iv(opt_data) ==
    LET f == float(Get(opt_data, "impliedVolatility", Num(0)))
    IN  IF f.exc # "" THEN 0 ELSE f.v

\* the label given when the quoted volatility is not positive
substitute_status(nearest) == IF nearest.found THEN "FAKE" ELSE "REAL"

\* iv_decimal = iv_raw / 100.0 if iv_raw > 0 else 0.01
iv_result(exc, iv_raw, used_iv_status) ==
    [exc |-> exc, iv_raw |-> iv_raw, used_iv_status |-> used_iv_status,
     iv_decimal |-> IF iv_raw > 0 THEN iv_raw \div 100 ELSE ONE \div 100]

\* the branch taken when the quoted volatility is not positive
substitute_iv(iv_quoted, nearest) ==
    iv_result(nearest.exc,
              IF nearest.found THEN nearest.iv * 100 ELSE iv_quoted,
              substitute_status(nearest))

\* step 3 of the loop body: iv_raw, used_iv_status and iv_decimal
resolve_quoted(iv_quoted, strike_price, chain, opt_type) ==
    IF iv_quoted <= 0
    THEN substitute_iv(iv_quoted, get_nearest_iv(strike_price, chain, opt_type))
    ELSE iv_result("", iv_quoted, "REAL")

resolve_iv(opt_data, strike_price, chain, opt_type) ==
    resolve_quoted(quoted_iv(opt_data), strike_price, chain, opt_type)

\* contract_obj, or the exception that left the loop body
side_return(sym, opt_type, expiry_str, strike_price, S, today_date, tte, iv, pricing) ==
    IF tte.exc # "" THEN [exc |-> tte.exc, obj |-> <<>>]
    ELSE IF iv.exc # "" THEN [exc |-> iv.exc, obj |-> <<>>]
    ELSE IF pricing.exc # "" THEN [exc |-> pricing.exc, obj |-> <<>>]
    ELSE [exc |-> "",
          obj |-> [symbol |-> upper(sym),
                   option_type |-> opt_type,
                   expiry_date |-> <<expiry_str, tte.T, tte.frac_str>>,
                   raw_days_to_expiry |-> raw_days(expiry_str, today_date),
                   days_to_expiry |-> tte.days_left,
                   day_fraction_excluding_weekends_holidays |-> tte.frac_str,
                   K |-> strike_price,
                   S |-> S,
                   IV |-> <<iv.iv_raw, iv.iv_decimal, iv.used_iv_status>>,
                   r |-> MANUAL_RISK_FREE_RATE,
                   q |-> MANUAL_DIVIDEND_YIELD,
                   pricing_steps |->
                       [k \in 1..Len(pricing.results) |->
                          step_fields(pricing.results[k])]]]

\* steps 4 and 5: the step schedule and the lattice for each step count
side_priced(sym, opt_type, expiry_str, strike_price, S, today_date, tte, iv) ==
    side_return(sym, opt_type, expiry_str, strike_price, S, today_date,
                tte, iv,
                trinomial_tree_price(S, strike_price, MANUAL_RISK_FREE_RATE,
                                     iv.iv_decimal, tte.T,
                                     MANUAL_DIVIDEND_YIELD,
                                     determine_n_steps(iv.iv_decimal, tte.T,
                                                       TRUE, TRUE),
                                     opt_type))

\* steps 1 and 3: time to expiry and volatility
side_inputs(sym, opt_type, chain, today_date, expiry_str, strike_price, opt_data, S) ==
    side_priced(sym, opt_type, expiry_str, strike_price, S, today_date,
                calculate_time_to_expiry(expiry_str, today_date,
                                         TOTAL_TRADING_DAYS_2025),
                resolve_iv(opt_data, strike_price, chain, opt_type))

\* the body of the inner loop for a side that is present: exc # "" when it
\* raises, obj is the contract_obj appended otherwise
price_side(sym, contract, opt_type, chain, today_date) ==
    side_inputs(sym, opt_type, chain, today_date,
                Get(contract, "expiryDate", EmptyStr),
                Get(contract, "strikePrice", Num(0)),
                contract[opt_type],
                Get(contract[opt_type], "underlyingValue", Num(0)))

(***************************************************************************)
(* Inputs                                                                  *)
(***************************************************************************)
\* a key that the provider left out
MISSING == [missing |-> TRUE]

Put(key, v) == IF v = MISSING THEN <<>> ELSE (key :> v)

\* a CE / PE object
Opt(uv, iv) == Put("underlyingValue", uv) @@ Put("impliedVolatility", iv)

\* a contract record
Contract(e, k, ce, pe) ==
    Put("expiryDate", e) @@ Put("strikePrice", k) @@ Put("CE", ce) @@ Put("PE", pe)

E_LONG  == DateStr(30, "Dec", 2025)
E_SHORT == DateStr(24, "Apr", 2025)

Spot == Num(100 * ONE)

Contracts ==
    { Contract(E_LONG, Num(100 * ONE), ce, MISSING) :
        ce \in { Opt(Spot, Num(18 * ONE)), Opt(Spot, Num(0)),
                 Opt(Spot, NumStr(45 * ONE)), Opt(Spot, Num(300000)),
                 Opt(Str, Str), Opt(MISSING, MISSING) } }
    \cup
    { Contract(e, k, Opt(Spot, Num(0)), Opt(Spot, Num(18 * ONE))) :
        e \in {E_SHORT, MISSING}, k \in {Num(105 * ONE), Str, MISSING} }
    \cup
    { Contract(NoneStr, Num(100 * ONE), Opt(Spot, Num(18 * ONE)), MISSING),
      Contract(E_LONG, Num(100 * ONE), MISSING, MISSING) }

Chains == UNION { [1..n -> Contracts] : n \in 0..MaxChain }

Symbols == {"nifty", "RELIANCE"}

Todays == { ymd2ord(2025, 4, 7), ymd2ord(2025, 4, 29) }

(***************************************************************************)
(* The request handler                                                     *)
(***************************************************************************)
NoCall == [fn |-> "none"]

Init ==
    /\ symbol \in Symbols
    /\ today \in Todays
    /\ chain_data = <<>>
    /\ pc = "start"
    /\ idx = 0
    /\ side = 0
    /\ all_results = <<>>
    /\ response = [status |-> 0, payload |-> "none", body |-> <<>>]
    /\ call = NoCall
    /\ ret = 0

\* fetch_option_chain returned the list data["records"]["data"]
FetchOk ==
    /\ pc = "start"
    /\ \E data \in Chains : chain_data' = data
    /\ pc' = "loop"
    /\ idx' = 1
    /\ side' = 1
    /\ UNCHANGED <<symbol, today, all_results, response, call, ret>>

\* fetch_option_chain returned the error dict: it is sent back as it is
FetchFailed ==
    /\ pc = "start"
    /\ pc' = "done"
    /\ response' = [status |-> 200, payload |-> "error", body |-> <<>>]
    /\ UNCHANGED <<symbol, today, chain_data, idx, side, all_results, call, ret>>

\* the next position of the two nested for loops
Advance ==
    /\ idx' = IF side = Len(OptTypes) THEN idx + 1 ELSE idx
    /\ side' = IF side = Len(OptTypes) THEN 1 ELSE side + 1

\* if opt_type not in contract: continue
SkipSide ==
    /\ pc = "loop"
    /\ idx <= Len(chain_data)
    /\ OptTypes[side] \notin DOMAIN chain_data[idx]
    /\ Advance
    /\ UNCHANGED <<symbol, today, chain_data, pc, all_results, response, call, ret>>

\* PriceSide with the append executed twice
PriceSideTwice ==
    /\ pc = "loop"
    /\ idx <= Len(chain_data)
    /\ OptTypes[side] \in DOMAIN chain_data[idx]
    /\ \E res \in { price_side(symbol, chain_data[idx], OptTypes[side],
                                chain_data, today) } :
           /\ res.exc = ""
           /\ all_results' = Append(Append(all_results, res.obj), res.obj)
    /\ Advance
    /\ UNCHANGED <<symbol, today, chain_data, pc, response, call, ret>>

\* the loop body ran to all_results.append(contract_obj)
PriceSide ==
    /\ pc = "loop"
    /\ idx <= Len(chain_data)
    /\ OptTypes[side] \in DOMAIN chain_data[idx]
    /\ \E res \in { price_side(symbol, chain_data[idx], OptTypes[side],
                                chain_data, today) } :
           /\ res.exc = ""
           /\ all_results' = Append(all_results, res.obj)
    /\ Advance
    /\ UNCHANGED <<symbol, today, chain_data, pc, response, call, ret>>

\* the loop body raised: the exception leaves the handler, the request
\* is answered with an internal server error and no result list
RaiseSide ==
    /\ pc = "loop"
    /\ idx <= Len(chain_data)
    /\ OptTypes[side] \in DOMAIN chain_data[idx]
    /\ \E res \in { price_side(symbol, chain_data[idx], OptTypes[side],
                                chain_data, today) } :
           /\ res.exc # ""
           /\ response' = [status |-> 500, payload |-> res.exc, body |-> <<>>]
    /\ pc' = "done"
    /\ UNCHANGED <<symbol, today, chain_data, idx, side, all_results, call, ret>>

\* return jsonify(all_results)
Respond ==
    /\ pc = "loop"
    /\ idx > Len(chain_data)
    /\ response' = [status |-> 200, payload |-> "results",
                       body |-> all_results]
    /\ pc' = "done"
    /\ UNCHANGED <<symbol, today, chain_data, idx, side, all_results, call, ret>>

Next == FetchOk \/ FetchFailed \/ SkipSide \/ PriceSide \/ RaiseSide \/ Respond

Spec == Init /\ [][Next]_vars

(***************************************************************************)
(* The functions of the module called on their own, on inputs drawn from   *)
(* bounded sets                                                            *)
(***************************************************************************)
\* strings that strptime rejects
BadDateStrs == { EmptyStr, DateStr(31, "Apr", 2025), DateStr(15, "Foo", 2025) }

\* strings that strptime accepts
GoodDateStrs == { DateStr(d, "Apr", y) : d \in 9..MaxDay, y \in {2025, 2026} }

UnitDateStrs == GoodDateStrs \cup BadDateStrs

UnitTodays == { ymd2ord(2025, 4, 7), ymd2ord(2025, 4, 16), ymd2ord(2025, 12, 31) }

TotalDays == { TOTAL_TRADING_DAYS_2025, 0, -1 }

UnitContracts ==
    { Contract(E_SHORT, k, ce, pe) :
        k \in { Num(100 * ONE), Num(105 * ONE) },
        ce \in { MISSING, Opt(Spot, Num(18 * ONE)), Opt(Spot, NumStr(25 * ONE)),
                 Opt(Spot, Num(0)), Opt(Spot, Str), Opt(Spot, MISSING) },
        pe \in { MISSING, Opt(Spot, Num(20 * ONE)) } }

UnitChains == UNION { [1..n -> UnitContracts] : n \in 0..MaxChain }

UnitTargets == { Num(102 * ONE), Num(102500000) }

UnitIVs == { 50000, 100000, 100001, 150000, 200000, 200001, 400000, 400001,
             450000 }

UnitTs == { -50000, 0, 44534, 49999, 50000, 732793 }

UnitNs == { -10, 0, 4, 10 }

InitUnit ==
    /\ symbol = "nifty"
    /\ today = ymd2ord(2025, 4, 7)
    /\ chain_data = <<>>
    /\ pc = "unit"
    /\ idx = 0
    /\ side = 0
    /\ all_results = <<>>
    /\ response = [status |-> 0, payload |-> "none", body |-> <<>>]
    /\ call = NoCall
    /\ ret = 0

\* a call returns once; nothing of the request handler moves
Idle ==
    /\ pc' = "returned"
    /\ UNCHANGED <<symbol, today, chain_data, idx, side, all_results, response>>

CallCount ==
    /\ pc = "unit"
    /\ \E start_str \in UnitDateStrs, end_str \in UnitDateStrs :
          /\ call' = [fn |-> "count_trading_days_between",
                      start_str |-> start_str, end_str |-> end_str]
          /\ ret' = count_trading_days_between(start_str, end_str)
    /\ Idle

CallTimeToExpiry ==
    /\ pc = "unit"
    /\ \E expiry_str \in UnitDateStrs, t \in UnitTodays, total \in TotalDays :
          /\ call' = [fn |-> "calculate_time_to_expiry",
                      expiry_str |-> expiry_str, today |-> t, total |-> total]
          /\ ret' = calculate_time_to_expiry(expiry_str, t, total)
    /\ Idle

CallNearest ==
    /\ pc = "unit"
    /\ \E strike_price \in UnitTargets, option_chain \in UnitChains,
          option_type \in {"CE", "PE"} :
          /\ call' = [fn |-> "get_nearest_iv", strike_price |-> strike_price,
                      option_chain |-> option_chain,
                      option_type |-> option_type]
          /\ ret' = get_nearest_iv(strike_price, option_chain, option_type)
    /\ Idle

CallSteps ==
    /\ pc = "unit"
    /\ \E IV \in UnitIVs, T \in UnitTs, is_index \in BOOLEAN, is_atm \in BOOLEAN :
          /\ call' = [fn |-> "determine_n_steps", IV |-> IV, T |-> T,
                      is_index |-> is_index, is_atm |-> is_atm]
          /\ ret' = determine_n_steps(IV, T, is_index, is_atm)
    /\ Idle

CallSingleStep ==
    /\ pc = "unit"
    /\ \E S \in {Spot, Str}, K \in {Num(100 * ONE), Num(105 * ONE)},
          r \in {MANUAL_RISK_FREE_RATE, 0}, sigma \in {10000, 180000},
          T \in UnitTs, n \in UnitNs, option_type \in {"CE", "PE"} :
          /\ call' = [fn |-> "trinomial_single_step", S |-> S, K |-> K,
                      r |-> r, sigma |-> sigma, T |-> T,
                      q |-> MANUAL_DIVIDEND_YIELD, n |-> n,
                      option_type |-> option_type]
          /\ ret' = trinomial_single_step(S, K, r, sigma, T,
                                          MANUAL_DIVIDEND_YIELD, n, option_type)
    /\ Idle

NextUnit == CallCount \/ CallTimeToExpiry \/ CallNearest \/ CallSteps
            \/ CallSingleStep

SpecUnit == InitUnit /\ [][NextUnit]_vars

(***************************************************************************)
(* Reference definitions used by the properties                            *)
(***************************************************************************)
\* the sides of a contract record that are present, in loop order
SidesOf(c) == SelectSeq(<<"CE", "PE">>, LAMBDA s : s \in DOMAIN c)

\* the (position, side) pairs of the first n records of a chain
RECURSIVE PairsUpTo(_, _)
PairsUpTo(chain, n) ==
    IF n = 0 THEN <<>>
    ELSE PairsUpTo(chain, n - 1)
         \o [k \in 1..Len(SidesOf(chain[n])) |-> <<n, SidesOf(chain[n])[k]>>]

PresentPairs(chain) == PairsUpTo(chain, Len(chain))

\* the side's own quoted implied volatility is a number above zero
Qualifies(opt) ==
    /\ "impliedVolatility" \in DOMAIN opt
    /\ opt["impliedVolatility"].t \in {"num", "numstr"}
    /\ opt["impliedVolatility"].v > 0

\* all lattice step results sent so far, as pairs <<output, step>>
StepIndex ==
    { p \in (1..Len(all_results)) \X (1..6) :
        p[2] <= Len(all_results[p[1]].pricing_steps) }

StepAt(p) == all_results[p[1]].pricing_steps[p[2]]

ProbSum(st) == st.p_u + st.p_m + st.p_d

RefHolidays ==
    { ymd2ord(2025, h[2], h[1]) :
        h \in { <<26, 2>>, <<14, 3>>, <<31, 3>>, <<10, 4>>, <<14, 4>>,
                <<18, 4>>, <<1, 5>>, <<15, 8>>, <<27, 8>>, <<2, 10>>,
                <<21, 10>>, <<22, 10>>, <<5, 11>>, <<25, 12>> } }

\* Monday to Friday, counted from Monday 6 January 2025, and no holiday
RefTradingDay(d) ==
    /\ (d - ymd2ord(2025, 1, 6)) % 7 \in 0..4
    /\ d \notin RefHolidays

RefTradingDays(from, to) == Cardinality({ d \in from..to : RefTradingDay(d) })

DegenerateTuple == TTE("", 0, FracStr(0, 0), 0)

(***************************************************************************)
(* Properties                                                              *)
(***************************************************************************)

\* C1: every priced contract side is labelled REAL exactly when the
\* volatility used is the side's own quoted impliedVolatility (> 0), and
\* FAKE when it was substituted from a sibling or defaulted to the 1% floor.
C1_LabelTellsProvenance ==
    \A k \in 1..Len(all_results) :
        (all_results[k].IV[3] = "REAL")
        <=> Qualifies(chain_data[PresentPairs(chain_data)[k][1]]
                                [PresentPairs(chain_data)[k][2]])

\* C2: the loop over the contract records never aborts: once the handler
\* has answered a fetched chain, it has answered with the result list and
\* that list holds an entry for every side present in every record.
C2_BatchNeverAborts ==
    (pc = "done" /\ response.payload # "error")
    => /\ response.payload = "results"
       /\ Len(response.body) = Len(PresentPairs(chain_data))

\* C3 (as stated): the result list has at least as many entries as there
\* are input records and at most twice as many.
C3_AtLeastOnePerRecord ==
    response.payload = "results"
    => /\ Len(response.body) >= Len(chain_data)
       /\ Len(response.body) <= 2 * Len(chain_data)

\* C3 (amended): the result list never has more than two entries per input
\* record, and a completed list has exactly one entry per option side
\* present in the records, which may be fewer than the records.
C3_OnePerPresentSide ==
    /\ Len(all_results) <= 2 * Len(chain_data)
    /\ response.payload = "results"
       => /\ Len(response.body) <= 2 * Len(chain_data)
          /\ Len(response.body) = Len(PresentPairs(chain_data))

C3_Witness ==
    /\ response.payload = "results"
    /\ Len(chain_data) = 2
    /\ Len(response.body) = 1

\* C4: determine_n_steps returns the list of the first matching rule in the
\* order IV > 0.4, IV > 0.2, IV > 0.1, T < 0.05, index-and-ATM, default; a
\* contract with IV > 0.4 and T < 0.05 gets the 400-step list.
C4_FirstRuleWins ==
    call.fn = "determine_n_steps"
    => /\ call.IV > 400000 => ret = <<10, 20, 50, 100, 200, 400>>
       /\ (call.IV <= 400000 /\ call.IV > 200000)
          => ret = <<10, 20, 50, 100, 200>>
       /\ (call.IV <= 200000 /\ call.IV > 100000)
          => ret = <<4, 10, 20, 40, 100>>
       /\ (call.IV <= 100000 /\ call.T < 50000)
          => ret = <<4, 10, 20, 40, 50>>
       /\ (call.IV <= 100000 /\ call.T >= 50000 /\ call.is_index /\ call.is_atm)
          => ret = <<10, 20, 50, 100, 200>>
       /\ (call.IV <= 100000 /\ call.T >= 50000
           /\ ~(call.is_index /\ call.is_atm))
          => ret = <<4, 10, 20, 40>>
       /\ (call.IV > 400000 /\ call.T < 50000) => ret # <<4, 10, 20, 40, 50>>

C4_Witness ==
    /\ call.fn = "determine_n_steps"
    /\ call.IV > 400000
    /\ call.T < 50000
    /\ ret = <<10, 20, 50, 100, 200, 400>>

\* C5 (as stated): calculate_time_to_expiry returns (0.0, "0/0", 0) when
\* the expiry string is unparsable, when its year is not the calendar year,
\* or when the total trading-day count is <= 0.
C5_ZeroTupleInAllThreeCases ==
    (/\ call.fn = "calculate_time_to_expiry"
     /\ \/ call.expiry_str \in BadDateStrs
        \/ call.expiry_str.y # 2025
        \/ call.total <= 0)
    => ret = DegenerateTuple

\* C5 (amended): calculate_time_to_expiry returns (0.0, "0/0", 0) when the
\* expiry string is unparsable or its year is not the calendar year; for a
\* valid expiry of the calendar year and a total trading-day count <= 0 it
\* returns T = 0.0 with the counted trading days and the text "days/total".
C5_ZeroTupleAndZeroTotal ==
    call.fn = "calculate_time_to_expiry"
    => /\ (call.expiry_str \in BadDateStrs \/ call.expiry_str.y # 2025)
          => ret = DegenerateTuple
       /\ (call.expiry_str \in GoodDateStrs /\ call.expiry_str.y = 2025
           /\ call.total <= 0)
          => /\ ret.exc = ""
             /\ ret.T = 0
             /\ ret.days_left =
                  RefTradingDays(call.today,
                                 ymd2ord(2025, 4, call.expiry_str.d))
             /\ ret.frac_str = <<ret.days_left, call.total>>

C5_Witness ==
    /\ call.fn = "calculate_time_to_expiry"
    /\ call.expiry_str \in GoodDateStrs
    /\ call.expiry_str.y = 2025
    /\ call.total <= 0
    /\ ret.days_left > 0
    /\ ret.frac_str # FracStr(0, 0)

\* C6: for two parseable dates count_trading_days_between is the number of
\* dates from start to end, both included, that fall on Monday to Friday
\* and are no holiday; it is 0 when start is after end.
C6_CountsTradingDays ==
    (/\ call.fn = "count_trading_days_between"
     /\ call.start_str \in GoodDateStrs
     /\ call.end_str \in GoodDateStrs)
    => /\ ret = RefTradingDays(ymd2ord(call.start_str.y, 4, call.start_str.d),
                               ymd2ord(call.end_str.y, 4, call.end_str.d))
       /\ (ymd2ord(call.start_str.y, 4, call.start_str.d)
             > ymd2ord(call.end_str.y, 4, call.end_str.d)) => ret = 0

C6_Witness ==
    /\ call.fn = "count_trading_days_between"
    /\ call.start_str = DateStr(9, "Apr", 2025)
    /\ call.end_str = DateStr(15, "Apr", 2025)
    /\ ret = 3

\* C7: get_nearest_iv returns the volatility (as a decimal) and the strike
\* of the first contract, by ascending strike distance with ties in chain
\* order, that has the side with a present, parseable, positive
\* impliedVolatility; it returns not-found exactly when no contract
\* qualifies.  (Chains whose records all carry a numeric strike.)
C7_NearestQualifyingSibling ==
    call.fn = "get_nearest_iv"
    => LET chain == call.option_chain
           Qual  == { i \in 1..Len(chain) :
                        /\ call.option_type \in DOMAIN chain[i]
                        /\ Qualifies(chain[i][call.option_type]) }
           Dist(i) == Abs(chain[i]["strikePrice"].v - call.strike_price.v)
       IN  /\ ret.exc = ""
           /\ ret.found <=> Qual # {}
           /\ \A i \in Qual :
                (\A j \in Qual : Dist(i) < Dist(j)
                                 \/ (Dist(i) = Dist(j) /\ i <= j))
                => /\ ret.iv = chain[i][call.option_type]["impliedVolatility"].v
                                 \div 100
                   /\ ret.strike = chain[i]["strikePrice"].v

C7_Witness ==
    /\ call.fn = "get_nearest_iv"
    /\ call.strike_price = Num(102 * ONE)
    /\ call.option_type = "CE"
    /\ Len(call.option_chain) = 2
    /\ call.option_chain[1] = Contract(E_SHORT, Num(100 * ONE),
                                       Opt(Spot, Num(0)), MISSING)
    /\ call.option_chain[2] = Contract(E_SHORT, Num(105 * ONE),
                                       Opt(Spot, Num(18 * ONE)), MISSING)
    /\ ret.found
    /\ ret.iv = 180000
    /\ ret.strike = 105 * ONE

\* C8: in every lattice step result the three probabilities p_u, p_m and
\* p_d are non-negative.
C8_ProbabilitiesNonNegative ==
    \A p \in StepIndex :
        StepAt(p).p_u >= 0 /\ StepAt(p).p_m >= 0 /\ StepAt(p).p_d >= 0

\* C9 (as stated): in every lattice step result p_u + p_m + p_d = 1 within
\* tolerance.
C9_ProbabilitiesSumToOne ==
    \A p \in StepIndex : Abs(ProbSum(StepAt(p)) - ONE) <= 1

\* C9 (amended): in every lattice step result with dt > 0 the three
\* probabilities sum to 1 within tolerance; the degenerate result (dt <= 0)
\* carries three zero probabilities.
C9_SumToOneUnlessDegenerate ==
    \A p \in StepIndex :
        /\ StepAt(p).dt > 0 => Abs(ProbSum(StepAt(p)) - ONE) <= 1
        /\ StepAt(p).dt <= 0 => ProbSum(StepAt(p)) = 0

C9_Witness ==
    \E p \in StepIndex, o \in StepIndex :
        /\ StepAt(p).dt > 0
        /\ StepAt(p).p_u > 0
        /\ ProbSum(StepAt(p)) = ONE
        /\ StepAt(o).dt = 0
        /\ ProbSum(StepAt(o)) = 0

\* C10: whenever dt = T/n is <= 0 (T zero, n zero, or T and n of opposite
\* sign) trinomial_single_step does not raise and returns u = d = m = 1,
\* three zero probabilities, discount factor 1, the three prices equal to
\* S, three zero payoffs and a zero root value.
C10_DegenerateRecord ==
    (/\ call.fn = "trinomial_single_step"
     /\ \/ call.n = 0
        \/ call.T = 0
        \/ (call.T > 0 /\ call.n < 0)
        \/ (call.T < 0 /\ call.n > 0))
    => /\ ret.exc = ""
       /\ ret.u = ONE /\ ret.d = ONE /\ ret.m = ONE
       /\ ret.p_u = 0 /\ ret.p_m = 0 /\ ret.p_d = 0
       /\ ret.discount_factor = ONE
       /\ ret.price_up = call.S /\ ret.price_mid = call.S
       /\ ret.price_down = call.S
       /\ ret.payoff_up = 0 /\ ret.payoff_mid = 0 /\ ret.payoff_down = 0
       /\ ret.option_value_at_root = 0

C10_Witness ==
    /\ call.fn = "trinomial_single_step"
    /\ call.T = 0
    /\ call.n = 10
    /\ call.S = Spot
    /\ ret.price_up = Spot
    /\ ret.option_value_at_root = 0

====
